---- MODULE Spec2Model ----
\* The particle sandbox as a state machine: the store App::new builds
\* (src/src/main.rs), the physics step update_particles (src/src/physics.rs)
\* that every frame runs on it, and the inspector and the click of App::update
\* that write the store and the selection between two calls.  One call is
\* walked contact by contact, in the order the nested loops of the source
\* visit them.  A frame of App::update is time_scale calls, then the
\* inspector, then the click; the slider sets time_scale from 0 to 20
\* (main.rs:155), so a frame may run no call, and between two calls the
\* inspector and the click may act any number of times.  physics.rs has no
\* step that reads the bond graph main.rs hands it: the graph is state that
\* no action writes.
\*
\* Numbers.  The source computes in f32, and so does the model: every sum,
\* product, quotient and square root is the IEEE 754 binary32 result, rounded
\* to nearest with ties to even, with signed zeros, infinities and NaN.
EXTENDS Integers, Naturals, Sequences, FiniteSets, TLC


VARIABLES
    particles,               \* Vec<Particle>, 1-based here (index k+1 is source index k)
    rectangles,              \* [Rectangle]
    dt,                      \* the dt argument of the running call
    pc,                      \* position in update_particles, or in App::update after it
    iteration,               \* the `for _ in 0..MAX_ITERATIONS` counter
    i, j, r,                 \* loop indices (source values, 0-based)
    was_collision,
    reached_max_iterations,
    particles_to_delete,     \* Vec<usize> of source indices
    stdout,                  \* warning lines printed by the running/last call
    calls,                   \* calls that have returned
    before,                  \* particles when the running/last call started
    before_rectangles,       \* rectangles when the running/last call started
    handed,                  \* particles when the solver loop was left
    clean_iterations,        \* iterations of this call that ended with was_collision false
    panic,                   \* "" or the panic that aborted the call
    origin,                  \* for each particle of the store, its place in `before`
    examined,                \* the contact tests of the running iteration, in order
    bonds,                   \* HashMap<(usize, usize), Bond>: its keys, source indices
    selected_object,         \* Option<SelectedObject> of App (main.rs:29)
    edits                    \* values the inspector has written

vars == <<particles, rectangles, dt, pc, iteration, i, j, r, was_collision,
          reached_max_iterations, particles_to_delete, stdout, calls, before,
          before_rectangles, handed, clean_iterations, panic, origin,
          examined, bonds, selected_object, edits>>

-----------------------------------------------------------------------------
\* Bounds of the model

MaxCalls == 2       \* update_particles calls per behaviour
MaxEdits == 1       \* values written by the inspector per behaviour
MaxFrames == 5      \* frames of a run of the program that is left alone

-----------------------------------------------------------------------------
\* binary32 (f32), the number type of physics.rs

\* A finite f32 is <<s, m, e>> standing for s * m * 2^e: s is 1 or -1, m is
\* odd and below 2^24, and a zero is <<s, 0, 0>> (f32 has a zero of each sign).
\* An infinity is <<s, 1, 128>> and NaN is <<0, 0, 0>>.
NaN == <<0, 0, 0>>
Inf(s) == <<s, 1, 128>>
IsNaN(a) == a[1] = 0
IsInf(a) == a[3] = 128
IsZero(a) == a[1] # 0 /\ a[2] = 0

Abs(n) == IF n < 0 THEN -n ELSE n

\* the number of bits of a natural number
RECURSIVE BitLen(_)
BitLen(n) ==
    IF n = 0 THEN 0
    ELSE IF n >= 4096 THEN 12 + BitLen(n \div 4096)
    ELSE 1 + BitLen(n \div 2)

\* the number of zero bits a positive number ends in
RECURSIVE TrailingZeros(_)
TrailingZeros(n) ==
    IF n % 4096 = 0 THEN 12 + TrailingZeros(n \div 4096)
    ELSE IF n % 2 = 0 THEN 1 + TrailingZeros(n \div 2)
    ELSE 0

\* s * m * 2^e with m > 0, as an f32 that needs no rounding
Finite(s, m, e, zeros) == <<s, m \div 2^zeros, e + zeros>>

\* s * m * 2^e with m <= 2^24: beyond the largest f32 it is an infinity
Ranged(s, m, e) ==
    IF m = 0 THEN <<s, 0, 0>>
    ELSE IF BitLen(m) + e > 128 THEN Inf(s)
    ELSE Finite(s, m, e, TrailingZeros(m))

\* (hi + (lo + t) / 2^24) * 2^e rounded to a multiple of 2^e, ties to even;
\* lo < 2^24, and t, 0 or 1, stands for a rest in (0, 1)
RoundEven(s, hi, lo, t, e) ==
    IF lo > 2^23 \/ (lo = 2^23 /\ (t = 1 \/ hi % 2 = 1))
    THEN Ranged(s, hi + 1, e)
    ELSE Ranged(s, hi, e)

\* the same number with 2^(e + d) for 2^e
ShiftRight(s, hi, lo, t, e, d) ==
    IF d > 24 THEN RoundEven(s, 0, 0, 1, e + d)
    ELSE RoundEven(s, hi \div 2^d, (hi % 2^d) * 2^(24 - d) + lo \div 2^d,
                   IF lo % 2^d # 0 THEN 1 ELSE t, e + d)

\* hi has 24 bits: f32 keeps them all down to 2^-126, and below that the
\* bits from 2^-149 up
Subnormal(s, hi, lo, t, e) ==
    IF e >= -149 THEN RoundEven(s, hi, lo, t, e)
    ELSE ShiftRight(s, hi, lo, t, e, -149 - e)

\* the same number with hi * 2^k, which has 24 bits, for hi
ShiftLeft(s, hi, lo, t, e, k) ==
    Subnormal(s, hi * 2^k + lo \div 2^(24 - k), (lo % 2^(24 - k)) * 2^k, t, e - k)

\* the f32 of sign s nearest to (hi + (lo + t) / 2^24) * 2^e, ties to even:
\* hi < 2^25, lo < 2^24, and t, 0 or 1, stands for a rest in (0, 1)
Pack(s, hi, lo, t, e) ==
    IF hi = 0 /\ lo = 0 THEN <<s, 0, 0>>
    ELSE IF hi >= 2^24
    THEN Subnormal(s, hi \div 2, (hi % 2) * 2^23 + lo \div 2,
                   IF lo % 2 = 1 THEN 1 ELSE t, e + 1)
    ELSE IF hi = 0 THEN ShiftLeft(s, lo, 0, t, e - 24, 24 - BitLen(lo))
    ELSE ShiftLeft(s, hi, lo, t, e, 24 - BitLen(hi))

\* a whole number below 2^24 in size
Num(n) ==
    IF n = 0 THEN <<1, 0, 0>>
    ELSE Ranged(IF n < 0 THEN -1 ELSE 1, Abs(n), 0)

Zero == Num(0)

\* -a: the sign bit flipped
RNeg(a) == <<-a[1], a[2], a[3]>>

\* the mantissa with its top bit at bit 23, and the exponent that goes with it
Mant(a) == a[2] * 2^(24 - BitLen(a[2]))
Expo(a) == a[3] - (24 - BitLen(a[2]))

\* |a| < |b| for numbers that are neither NaN nor zero
MagLt(a, b) ==
    IF Expo(a) # Expo(b) THEN Expo(a) < Expo(b) ELSE Mant(a) < Mant(b)

\* the sign of a number as -1, 0 or 1
Sign(a) == IF IsZero(a) THEN 0 ELSE a[1]

\* a < b
RLt(a, b) ==
    /\ ~IsNaN(a)
    /\ ~IsNaN(b)
    /\ IF Sign(a) # Sign(b) THEN Sign(a) < Sign(b)
       ELSE IF Sign(a) = 0 THEN FALSE
       ELSE IF Sign(a) = 1 THEN MagLt(a, b)
       ELSE MagLt(b, a)

RGt(a, b) == RLt(b, a)

\* a == b: the two zeros are equal, NaN equals nothing
REq(a, b) == ~IsNaN(a) /\ ~IsNaN(b) /\ (a = b \/ (IsZero(a) /\ IsZero(b)))

\* a <= b
RLe(a, b) == RLt(a, b) \/ REq(a, b)

\* the product of two mantissas from the products of their 12-bit halves
MulParts(s, top, mid, bottom, e) ==
    Pack(s, top + mid \div 4096 + (bottom + (mid % 4096) * 4096) \div 2^24,
         (bottom + (mid % 4096) * 4096) % 2^24, 0, e)

MulHalves(s, a1, a0, b1, b0, e) ==
    MulParts(s, a1 * b1, a1 * b0 + a0 * b1, a0 * b0, e + 24)

\* a * b
RMul(a, b) ==
    IF IsNaN(a) \/ IsNaN(b) THEN NaN
    ELSE IF (IsInf(a) /\ IsZero(b)) \/ (IsZero(a) /\ IsInf(b)) THEN NaN
    ELSE IF IsInf(a) \/ IsInf(b) THEN Inf(a[1] * b[1])
    ELSE IF IsZero(a) \/ IsZero(b) THEN <<a[1] * b[1], 0, 0>>
    ELSE MulHalves(a[1] * b[1], a[2] \div 4096, a[2] % 4096,
                   b[2] \div 4096, b[2] % 4096, a[3] + b[3])

\* a mantissa m moved d bits down: the part on the scale of the other
\* mantissa, the 24 bits below it, and whether anything is left below those
High(m, d) == IF d >= 24 THEN 0 ELSE m \div 2^d
Low(m, d) ==
    IF d >= 48 THEN 0
    ELSE IF d >= 24 THEN m \div 2^(d - 24)
    ELSE (m % 2^d) * 2^(24 - d)
Rest(m, d) ==
    IF d >= 48 THEN 1
    ELSE IF d > 24 /\ m % 2^(d - 24) # 0 THEN 1
    ELSE 0

\* hi - (lo + t) / 2^24
Borrow(s, hi, lo, t, e) ==
    IF lo + t = 0 THEN Pack(s, hi, 0, 0, e)
    ELSE Pack(s, hi - 1, 2^24 - lo - t, t, e)

\* sx * mx * 2^ex + sy * my * 2^(ex - d), the first the larger in size
AddAligned(sx, mx, ex, sy, my, d) ==
    IF sx = sy THEN Pack(sx, mx + High(my, d), Low(my, d), Rest(my, d), ex)
    ELSE IF d = 0 /\ mx = my THEN Zero
    ELSE Borrow(sx, mx - High(my, d), Low(my, d), Rest(my, d), ex)

AddOrdered(x, y) == AddAligned(x[1], Mant(x), Expo(x), y[1], Mant(y), Expo(x) - Expo(y))

\* a + b
RAdd(a, b) ==
    IF IsNaN(a) \/ IsNaN(b) THEN NaN
    ELSE IF IsInf(a) /\ IsInf(b) THEN (IF a[1] = b[1] THEN a ELSE NaN)
    ELSE IF IsInf(a) THEN a
    ELSE IF IsInf(b) THEN b
    ELSE IF IsZero(a) /\ IsZero(b) THEN (IF a[1] = b[1] THEN a ELSE Zero)
    ELSE IF IsZero(a) THEN b
    ELSE IF IsZero(b) THEN a
    ELSE IF MagLt(a, b) THEN AddOrdered(b, a)
    ELSE AddOrdered(a, b)

RSub(a, b) == RAdd(a, RNeg(b))

\* n more bits of the quotient rem / d with rem < d < 2^24, six bits a step
\* (rem * 64 stays below 2^31), and twice the rest: <<quotient, rest>>
RECURSIVE DivChunks(_, _, _, _)
DivChunks(rem, d, q, n) ==
    IF n = 0 THEN <<q, 2 * rem>>
    ELSE IF n >= 6 THEN DivChunks((rem * 64) % d, d, q * 64 + (rem * 64) \div d, n - 6)
    ELSE DivChunks((rem * 2^n) % d, d, q * 2^n + (rem * 2^n) \div d, 0)

\* n bits of the quotient rem / d with rem < 2 * d, the first of them the
\* whole part, and the rest: <<quotient, rest>>
DivBits(rem, d, q, n) ==
    IF rem >= d THEN DivChunks(rem - d, d, 2 * q + 1, n - 1)
    ELSE DivChunks(rem, d, 2 * q, n - 1)

DivLow(s, high, low, e) == Pack(s, high, low[1], IF low[2] = 0 THEN 0 ELSE 1, e)

DivHigh(s, high, mb, e) == DivLow(s, high[1], DivBits(high[2], mb, 0, 24), e)

\* a / b
RDiv(a, b) ==
    IF IsNaN(a) \/ IsNaN(b) THEN NaN
    ELSE IF (IsInf(a) /\ IsInf(b)) \/ (IsZero(a) /\ IsZero(b)) THEN NaN
    ELSE IF IsInf(a) \/ IsZero(b) THEN Inf(a[1] * b[1])
    ELSE IF IsZero(a) \/ IsInf(b) THEN <<a[1] * b[1], 0, 0>>
    ELSE DivHigh(a[1] * b[1], DivBits(Mant(a), Mant(b), 0, 24), Mant(b),
                 Expo(a) - Expo(b) - 23)

\* the quotient of two whole numbers
Rat(n, d) == RDiv(Num(n), Num(d))
Half == Rat(1, 2)

\* the square root of m * 4^13, m < 2^26, bit by bit: <<root, rest>>, two
\* bits of m a step, n steps to go
RECURSIVE SqrtBits(_, _, _, _)
SqrtBits(m, root, rem, n) ==
    IF n = 0 THEN <<root, rem>>
    ELSE IF 4 * rem + (IF n > 13 THEN (m \div 4^(n - 14)) % 4 ELSE 0) >= 4 * root + 1
    THEN SqrtBits(m, 2 * root + 1,
                  4 * rem + (IF n > 13 THEN (m \div 4^(n - 14)) % 4 ELSE 0)
                  - (4 * root + 1), n - 1)
    ELSE SqrtBits(m, 2 * root,
                  4 * rem + (IF n > 13 THEN (m \div 4^(n - 14)) % 4 ELSE 0), n - 1)

SqrtPack(root, e) ==
    Pack(1, root[1] \div 4, (root[1] % 4) * 2^22, IF root[2] = 0 THEN 0 ELSE 1, e)

\* f32::sqrt
RSqrt(a) ==
    IF IsNaN(a) THEN NaN
    ELSE IF IsZero(a) THEN a
    ELSE IF a[1] < 0 THEN NaN
    ELSE IF IsInf(a) THEN a
    ELSE IF Expo(a) % 2 = 0 THEN SqrtPack(SqrtBits(Mant(a), 0, 0, 26), Expo(a) \div 2 - 11)
    ELSE SqrtPack(SqrtBits(2 * Mant(a), 0, 0, 26), (Expo(a) - 1) \div 2 - 11)

\* f32::clamp panics when min > max or one of them is NaN
ClampPanics(lo, hi) == ~RLe(lo, hi)

\* f32::clamp(x, lo, hi) when it does not panic
RClamp(x, lo, hi) == IF RLt(x, lo) THEN lo ELSE IF RGt(x, hi) THEN hi ELSE x

\* std::f32::consts::PI: PiNum / PiDen is its exact value, 0x40490fdb
PiNum == 13176795
PiDen == 4194304
Pi == Rat(PiNum, PiDen)

\* |a|
RAbs(a) == IF IsNaN(a) THEN a ELSE <<1, a[2], a[3]>>

-----------------------------------------------------------------------------
\* cgmath::Vector2<f32>

Vec(x, y) == [x |-> x, y |-> y]
IVec(x, y) == Vec(Num(x), Num(y))

VAdd(a, b) == Vec(RAdd(a.x, b.x), RAdd(a.y, b.y))
VSub(a, b) == Vec(RSub(a.x, b.x), RSub(a.y, b.y))
VNeg(a) == Vec(RNeg(a.x), RNeg(a.y))
\* vector * scalar and scalar * vector
VScale(a, k) == Vec(RMul(a.x, k), RMul(a.y, k))
\* vector / scalar
VDiv(a, k) == Vec(RDiv(a.x, k), RDiv(a.y, k))
\* InnerSpace::dot: x1 * x2 + y1 * y2
dot(a, b) == RAdd(RMul(a.x, b.x), RMul(a.y, b.y))
magnitude2(a) == dot(a, a)
magnitude(a) == RSqrt(magnitude2(a))
\* MetricSpace::distance2: (other - self).magnitude2()
distance2(a, b) == magnitude2(VSub(b, a))
distance(a, b) == RSqrt(distance2(a, b))
\* InnerSpace::normalize: self * (1 / magnitude).  A zero vector gives
\* 0 * infinity, NaN in both components.
normalize(v) == VScale(v, RDiv(Num(1), magnitude(v)))

-----------------------------------------------------------------------------
\* Element (physics.rs:4-39)

Element == {"Hydrogen", "Oxygen"}

element_electrons_to_share(e) == IF e = "Hydrogen" THEN 1 ELSE 2

element_mass(e) == IF e = "Hydrogen" THEN Num(1) ELSE Num(16)

-----------------------------------------------------------------------------
\* Particle (physics.rs:41-81)

NoAttached == [e \in Element |-> 0]

Particle(pos, vel, base) ==
    [position |-> pos, velocity |-> vel, base_element |-> base,
     attached_elements |-> NoAttached]

\* Particle::mass: the base element's mass plus the sum, from 0.0 and in
\* declaration order, of element.mass() * count
mass(p) ==
    RAdd(element_mass(p.base_element),
         RAdd(RAdd(Zero, RMul(element_mass("Hydrogen"),
                              Num(p.attached_elements["Hydrogen"]))),
              RMul(element_mass("Oxygen"), Num(p.attached_elements["Oxygen"]))))

\* The assert! of Particle::electrons_to_share fails.  The EnumMap is walked in
\* declaration order: Hydrogen, then Oxygen.
electrons_assert_fails(p) ==
    LET base == element_electrons_to_share(p.base_element)
        h == element_electrons_to_share("Hydrogen") * p.attached_elements["Hydrogen"]
        o == element_electrons_to_share("Oxygen") * p.attached_elements["Oxygen"]
    IN  base < h \/ base - h < o

\* Particle::electrons_to_share, when its assert! holds
electrons_to_share(p) ==
    element_electrons_to_share(p.base_element)
    - element_electrons_to_share("Hydrogen") * p.attached_elements["Hydrogen"]
    - element_electrons_to_share("Oxygen") * p.attached_elements["Oxygen"]

\* Particle::radius
radius(p) == RSqrt(RDiv(mass(p), Pi))

\* radius() * radius(): the product of two calls that give the same f32
Squared(x) == RMul(x, x)

\* physics.rs:99-100  distance < radius_i + radius_j
Overlapping(a, b) ==
    RLt(distance(a.position, b.position), RAdd(radius(a), radius(b)))

\* physics.rs:101-103  relvel.dot(dir) < 0 with dir = (x_i - x_j) / distance.
\* At distance 0 dir is NaN and the comparison is false.
Closing(a, b) ==
    LET relvel == VSub(a.velocity, b.velocity)
        dir == VDiv(VSub(a.position, b.position), distance(a.position, b.position))
    IN  RLt(dot(relvel, dir), Zero)

\* a contact test that forgets the distance: any closing pair collides
ContactAtAnyDistance(a, b) == Closing(a, b)

\* physics.rs:100-103  the pair is a contact the solver resolves
Contact(a, b) == Overlapping(a, b) /\ Closing(a, b)

\* physics.rs:104-108  (0.5 * v_i * m_i - 0.5 * v_j * m_j).magnitude2() * 2.0
relative_kinetic_energy(a, b) ==
    RMul(magnitude2(VSub(VScale(VScale(a.velocity, Half), mass(a)),
                         VScale(VScale(b.velocity, Half), mass(b)))),
         Num(2))

\* physics.rs:117-120  0.5 * mass * velocity.magnitude2()
kinetic(p) == RMul(RMul(Half, mass(p)), magnitude2(p.velocity))

ReactionEnergy == 400

\* physics.rs:111-113
Reacts(a, b) ==
    /\ RGt(relative_kinetic_energy(a, b), Num(ReactionEnergy))
    /\ electrons_to_share(a) # 0
    /\ electrons_to_share(b) # 0

\* physics.rs:121-125  sqrt((ikenetic + jkenetic + 0.0) / (m_i + m_j) * 2.0)
final_vel(a, b) ==
    RSqrt(RMul(RDiv(RAdd(RAdd(kinetic(a), kinetic(b)), Zero),
                    RAdd(mass(a), mass(b))),
               Num(2)))

\* physics.rs:126-137  particle j after it absorbed particle i
Absorb(a, b) ==
    LET ea == element_electrons_to_share(a.base_element)
        eb == element_electrons_to_share(b.base_element)
        own == IF ea > eb
               THEN [b.attached_elements EXCEPT ![b.base_element] = @ + 1]
               ELSE [b.attached_elements EXCEPT ![a.base_element] = @ + 1]
    IN  [b EXCEPT !.base_element = IF ea > eb THEN a.base_element ELSE b.base_element,
                  !.attached_elements = [e \in Element |-> own[e] + a.attached_elements[e]]]

\* a reaction that also pulls the absorber to where the absorbed particle was
MergedAtContact(a, b) ==
    [Absorb(a, b) EXCEPT !.velocity = VScale(normalize(b.velocity), final_vel(a, b)),
                         !.position = a.position]

\* physics.rs:126-139  particle j after the reaction of the pair (i, j)
Merged(a, b) ==
    [Absorb(a, b) EXCEPT !.velocity = VScale(normalize(b.velocity), final_vel(a, b))]

\* physics.rs:143-159  the velocity of particle a after the elastic collision
\* with b:  v1 - (x1 - x2) * ((2 * m2) / (m1 + m2))
\*                         * ((v1 - v2).dot(x1 - x2) / (distance * distance))
Bounced(a, b) ==
    LET dx == VSub(a.position, b.position)
        dv == VSub(a.velocity, b.velocity)
        d == distance(a.position, b.position)
    IN  VSub(a.velocity,
             VScale(VScale(dx, RDiv(RMul(Num(2), mass(b)), RAdd(mass(a), mass(b)))),
                    RDiv(dot(dv, dx), RMul(d, d))))

-----------------------------------------------------------------------------
\* Rectangle (physics.rs:83-87) and the wall check (physics.rs:166-186)

Rectangle(pos, color, size) == [position |-> pos, color |-> color, size |-> size]

\* Vector3<f32>, a colour
Colour(red, green, blue) == [x |-> red, y |-> green, z |-> blue]

\* main.rs:70-74  the colour of the four walls of App::new: 0.1 is the f32
\* nearest to one tenth
Grey == Colour(Rat(1, 10), Rat(1, 10), Rat(1, 10))

\* physics.rs:169-174  one of the two clamp calls panics: a size below zero
\* (or NaN) makes min > max
WallPanics(rect) ==
    \/ ClampPanics(RMul(RNeg(rect.size.x), Half), RMul(rect.size.x, Half))
    \/ ClampPanics(RMul(RNeg(rect.size.y), Half), RMul(rect.size.y, Half))

\* physics.rs:167  relative_particle_position
Rel(p, rect) == VSub(p.position, rect.position)

\* physics.rs:168-174  closest_point, when no clamp panics
Closest(p, rect) ==
    Vec(RClamp(Rel(p, rect).x, RMul(RNeg(rect.size.x), Half), RMul(rect.size.x, Half)),
        RClamp(Rel(p, rect).y, RMul(RNeg(rect.size.y), Half), RMul(rect.size.y, Half)))

\* physics.rs:178  closest_point - relative_particle_position
ToWall(p, rect) == VSub(Closest(p, rect), Rel(p, rect))

\* physics.rs:175-176  closest_point.distance2(rel) < radius * radius
Penetrates(p, rect) ==
    RLt(distance2(Closest(p, rect), Rel(p, rect)), Squared(radius(p)))

\* physics.rs:178  the contact normal
Normal(p, rect) == normalize(ToWall(p, rect))

\* physics.rs:179  normal.dot(velocity) > 0: a zero ToWall normalizes to NaN,
\* and the comparison is false
IntoWall(p, rect) == RGt(dot(Normal(p, rect), p.velocity), Zero)

\* physics.rs:175-179  the particle is in a wall contact the solver resolves
WallContact(p, rect) == Penetrates(p, rect) /\ IntoWall(p, rect)

\* physics.rs:182-183  velocity - 2.0 * velocity.dot(normal) * normal
Reflected(p, rect) ==
    VSub(p.velocity,
         VScale(Normal(p, rect), RMul(Num(2), dot(p.velocity, Normal(p, rect)))))

\* an integrator that forgets dt
IntegratedWholeSecond(p, step) == [p EXCEPT !.position = VAdd(p.position, p.velocity)]

\* physics.rs:201-203
Integrated(p, step) == [p EXCEPT !.position = VAdd(p.position, VScale(p.velocity, step))]

\* Vec::remove(index) on a 1-based sequence, index a source index in range
Remove(s, index) == SubSeq(s, 1, index) \o SubSeq(s, index + 2, Len(s))

\* physics.rs:188-190  the removals in the order of the list: the particles
\* left, and whether an index was out of range (Vec::remove panics, and the
\* removals made before it stay made)
RECURSIVE RemoveAll(_, _)
RemoveAll(s, indices) ==
    IF indices = <<>> THEN [panicked |-> FALSE, particles |-> s]
    ELSE IF Head(indices) >= Len(s) THEN [panicked |-> TRUE, particles |-> s]
    ELSE RemoveAll(Remove(s, Head(indices)), Tail(indices))

-----------------------------------------------------------------------------
\* The selection of App (main.rs:21-29) and the search of a click

\* Option<SelectedObject>: None, Particle(index) or Rectangle(index), the
\* index a source index
NoSelection == [kind |-> "None", index |-> 0]
SelectedParticle(k) == [kind |-> "Particle", index |-> k]
SelectedRectangle(k) == [kind |-> "Rectangle", index |-> k]

\* main.rs:283-284  (world_position - position).magnitude2() <= radius * radius
OnParticle(world_position, p) ==
    RLe(magnitude2(VSub(world_position, p.position)), Squared(radius(p)))

\* main.rs:290-292  |relative_position| <= size * 0.5 on both axes
OnRectangle(world_position, rect) ==
    /\ RLe(RAbs(VSub(world_position, rect.position).x), RMul(rect.size.x, Half))
    /\ RLe(RAbs(VSub(world_position, rect.position).y), RMul(rect.size.y, Half))

\* main.rs:282-288  the source index of the first particle under the click,
\* or -1
RECURSIVE FirstParticle(_, _, _)
FirstParticle(world_position, ps, k) ==
    IF k >= Len(ps) THEN -1
    ELSE IF OnParticle(world_position, ps[k + 1]) THEN k
    ELSE FirstParticle(world_position, ps, k + 1)

\* main.rs:289-296  the source index of the first rectangle under the click,
\* or -1
RECURSIVE FirstRectangle(_, _, _)
FirstRectangle(world_position, rs, k) ==
    IF k >= Len(rs) THEN -1
    ELSE IF OnRectangle(world_position, rs[k + 1]) THEN k
    ELSE FirstRectangle(world_position, rs, k + 1)

\* main.rs:281-298  the first particle under the click, or else the first
\* rectangle under it, or else nothing
Search(world_position, ps, rs) ==
    IF FirstParticle(world_position, ps, 0) >= 0
    THEN SelectedParticle(FirstParticle(world_position, ps, 0))
    ELSE IF FirstRectangle(world_position, rs, 0) >= 0
    THEN SelectedRectangle(FirstRectangle(world_position, rs, 0))
    ELSE NoSelection

-----------------------------------------------------------------------------
\* Scenes: the particle and wall stores a behaviour starts from, and the dt
\* values a call may be given.

H(x, y, vx, vy) == Particle(IVec(x, y), IVec(vx, vy), "Hydrogen")
O(x, y, vx, vy) == Particle(IVec(x, y), IVec(vx, vy), "Oxygen")
Wall(x, y, w, h) == Rectangle(IVec(x, y), Grey, IVec(w, h))

Scene(ps, rs) == [particles |-> ps, rectangles |-> rs]

PairGaps == {1, 2, 6}

\* Two slow particles on the x axis, the first at (-1, 0), no walls.
SlowVelocities == {<<1, 0>>, <<-1, 0>>, <<0, 0>>, <<0, 1>>}

PairScenes ==
    { Scene(<<Particle(IVec(-1, 0), IVec(va[1], va[2]), ea),
              Particle(IVec(-1 + gap, 0), IVec(vb[1], vb[2]), eb)>>, <<>>) :
        ea \in Element, eb \in Element, gap \in PairGaps,
        va \in SlowVelocities, vb \in SlowVelocities }

\* The same with the first particle fast enough to react.
FastVelocities == {<<2, 0>>, <<0, 2>>}
TargetVelocities == {<<-2, 0>>, <<0, 0>>, <<0, 2>>, <<2, 0>>}

FastScenes ==
    { Scene(<<Particle(IVec(-1, 0), IVec(va[1], va[2]), ea),
              Particle(IVec(-1 + gap, 0), IVec(vb[1], vb[2]), eb)>>, <<>>) :
        ea \in Element, eb \in Element, gap \in PairGaps,
        va \in FastVelocities, vb \in TargetVelocities }

WallVelocities == {<<1, 0>>, <<0, 1>>, <<1, 1>>, <<-1, 0>>}

WallSets ==
    { <<Wall(3, 0, 2, 8)>>,                         \* one wall to the right
      <<Wall(3, 0, 2, 8), Wall(-3, 0, 2, 8)>>,      \* squeezed between two walls
      <<Wall(2, 2, 2, 2)>>,                         \* touching a corner
      <<Wall(0, 0, 2, 2)>>,                         \* centre inside the wall
      <<Wall(9, 0, 2, 8)>>,                         \* a wall out of reach
      <<Wall(1, 0, -2, 8)>> }                       \* a wall dragged to a width below zero

\* A particle at the origin passing a resting one: the relative velocity is
\* at a right angle to the line of centres.  <<x, y, vx, vy>> in quarters.
GrazingPasses ==
    { <<3, 9, -6, 2>>, <<3, 9, 6, -2>>, <<4, 5, 10, -8>>, <<4, 5, -10, 8>>,
      <<6, 8, 8, -6>>, <<6, 8, -8, 6>> }

GrazingScenes ==
    { Scene(<<Particle(IVec(0, 0), Vec(Rat(g[3], 4), Rat(g[4], 4)), ea),
              Particle(Vec(Rat(g[1], 4), Rat(g[2], 4)), IVec(0, 0), eb)>>, <<>>) :
        ea \in Element, eb \in Element, g \in GrazingPasses }

\* One particle at the origin and a set of walls.
WallScenes ==
    { Scene(<<Particle(IVec(0, 0), IVec(v[1], v[2]), e)>>, ws) :
        e \in Element, v \in WallVelocities, ws \in WallSets }

\* a particle that has absorbed others: h hydrogens and o oxygens attached
Molecule(p, h, o) == [p EXCEPT !.attached_elements = [e \in Element |-> IF e = "Hydrogen" THEN h ELSE o]]

\* A particle at the origin and the corner of a wall of size (2, 2) at about
\* its radius: <<centre x, centre y>> of the wall, as fractions.
CornerScenes ==
    { \* the velocity at a right angle to the line to the corner
      Scene(<<Particle(IVec(0, 0), Vec(Rat(7, 4), Rat(-3, 4)), "Hydrogen")>>,
            <<Rectangle(Vec(Rat(19, 16), Rat(23, 16)), Grey, IVec(2, 2))>>),
      \* the corner within a millionth of the radius, inside or outside
      Scene(<<Molecule(O(0, 0, 1, 1), 3, 0)>>,
            <<Rectangle(Vec(Rat(5307, 2048), Rat(23, 8)), Grey, IVec(2, 2))>>),
      Scene(<<Molecule(O(0, 0, 1, 1), 0, 2)>>,
            <<Rectangle(Vec(Rat(2433, 2048), Rat(2511, 512)), Grey, IVec(2, 2))>>),
      Scene(<<Molecule(O(0, 0, 1, 1), 1, 0)>>,
            <<Rectangle(Vec(Rat(1237, 1024), Rat(6793, 2048)), Grey, IVec(2, 2))>>) }

\* main.rs:49-104  the scene App::new builds
InitialScene ==
    Scene(<<O(3, 0, -1, 0), H(-3, 0, 0, 0),
            Particle(Vec(Num(-6), Rat(1, 2)), IVec(30, 10), "Hydrogen")>>,
          <<Wall(-15, 0, 1, 16), Wall(15, 0, 1, 16),
            Rectangle(Vec(Num(0), Rat(15, 2)), Grey, IVec(30, 1)),
            Rectangle(Vec(Num(0), Rat(-15, 2)), Grey, IVec(30, 1))>>)

ClusterScenes ==
    { \* an oxygen between two hydrogens, all closing at speed 2
      Scene(<<O(0, 0, 0, 2), H(1, 0, -2, 0), H(-1, 0, 2, 0)>>, <<>>),
      \* an oxygen chasing a hydrogen that is about to absorb another oxygen
      Scene(<<O(0, 0, 3, 0), O(5, 0, -2, 0), H(4, 0, 2, 0)>>, <<>>),
      \* three oxygens in a row, the outer ones closing on the middle one
      Scene(<<O(-4, 0, 1, 0), O(0, 0, 0, 0), O(4, 0, -1, 0)>>, <<>>),
      \* a chain of four in which each reaction feeds the next contact
      Scene(<<H(0, 0, 2, 0), O(1, 0, 0, 2), O(3, 0, -2, 0), H(5, 0, -3, 0)>>, <<>>),
      \* a hydrogen absorbed by an oxygen that a second hydrogen then absorbs
      Scene(<<H(-1, 0, 2, 0), O(0, 0, -2, 0), H(-2, 0, 2, 0)>>, <<>>),
      \* an oxygen running into two hydrogens, each of which absorbs it
      Scene(<<O(0, 0, 2, 0), H(1, 0, -2, 0), H(2, 0, -2, 0)>>, <<>>),
      \* two hydrogens reacting at speeds 30 and 40, and 30 and 1
      Scene(<<H(0, 0, 30, 0), H(1, 0, 0, 40)>>, <<>>),
      Scene(<<H(0, 0, 30, 10), H(1, 0, 0, 1)>>, <<>>),
      \* the empty store
      Scene(<<>>, <<Wall(3, 0, 2, 8)>>) }

Scenes ==
    PairScenes \cup FastScenes \cup GrazingScenes \cup WallScenes \cup CornerScenes
    \cup ClusterScenes

\* main.rs:66  the bond graph App::new builds
InitialBonds == {<<0, 1>>, <<0, 2>>}

\* main.rs:49-104  the store App::new builds, its bond graph included, and
\* the stores the other scenes make, which have no bonds
Stores ==
    { [scene |-> InitialScene, bonds |-> InitialBonds] }
    \cup { [scene |-> scene, bonds |-> {}] : scene \in Scenes }

DtValues == {Zero, Half, Num(1)}

\* main.rs:111-115  the time between two frames, which the clock gives: the
\* values that take the third particle of App::new to the upper wall, from
\* there to the right wall, and from there onto the second particle
FrameTimes == {Zero, Rat(5, 8), Rat(3, 64), Rat(9, 16)}

\* The world positions of the clicks: on the right wall of App::new, and on
\* the second particle of a pair that started six apart, one second after it
\* set off upward at speed 2.
ClickPoints == {IVec(15, 0), IVec(5, 4)}

\* The values a DragValue is given, and the colours picked.
DragValues == {Num(-1)}
White == Colour(Num(1), Num(1), Num(1))
PickedColours == {White}

-----------------------------------------------------------------------------
\* update_particles (physics.rs:89-204)

MAX_ITERATIONS == 100

\* App::update is between two calls: after update_particles has returned
\* (or before the first call), after the inspector, after the click
Between == {"idle", "inspected", "clicked"}

\* an entry of `examined`: the pair (a, b) of particles, or particle a against wall b
PairTest(a, b) == [kind |-> "pair", a |-> a, b |-> b]
WallTest(a, b) == [kind |-> "wall", a |-> a, b |-> b]

At(label, ii, jj, rr) == [pc |-> label, i |-> ii, j |-> jj, r |-> rr]

\* physics.rs:97-98, 166  where the scan goes when `for i` reaches source index k
StartI(k, n, m) ==
    IF k + 1 < n THEN At("pair", k, k + 1, 0)
    ELSE IF k < n /\ m > 0 THEN At("wall", k, 0, 0)
    ELSE At("delete", 0, 0, 0)

\* physics.rs:97  after the wall loop of particle k
AfterWalls(k, n, m) ==
    IF k + 1 < n THEN StartI(k + 1, n, m) ELSE At("delete", 0, 0, 0)

\* a scan that checks the walls only for the last particle
AfterPairWithoutWalls(k, jj, n, m) ==
    IF jj + 1 < n THEN At("pair", k, jj + 1, 0) ELSE AfterWalls(k, n, m)

\* physics.rs:98, 166  after the pair (k, jj)
AfterPair(k, jj, n, m) ==
    IF jj + 1 < n THEN At("pair", k, jj + 1, 0)
    ELSE IF m > 0 THEN At("wall", k, 0, 0)
    ELSE AfterWalls(k, n, m)

\* physics.rs:166  after the wall rr of particle k
AfterWall(k, rr, n, m) ==
    IF rr + 1 < m THEN At("wall", k, 0, rr + 1) ELSE AfterWalls(k, n, m)

Goto(at) ==
    /\ pc' = at.pc
    /\ i' = at.i
    /\ j' = at.j
    /\ r' = at.r

StartFrom(scene, graph) ==
    /\ particles = scene.particles
    /\ rectangles = scene.rectangles
    /\ bonds = graph
    /\ edits = 0
    /\ dt = Zero
    /\ pc = "idle"
    /\ iteration = 0
    /\ i = 0
    /\ j = 0
    /\ r = 0
    /\ was_collision = FALSE
    /\ reached_max_iterations = FALSE
    /\ particles_to_delete = <<>>
    /\ stdout = 0
    /\ calls = 0
    /\ before = particles
    /\ before_rectangles = rectangles
    /\ handed = particles
    /\ clean_iterations = 0
    /\ panic = ""
    /\ origin = [k \in 1..Len(particles) |-> k]
    /\ examined = <<>>
    /\ selected_object = NoSelection

\* App::new (main.rs:38-106), or a store of the scenes
Init == \E store \in Stores : StartFrom(store.scene, store.bonds)

\* physics.rs:89-92  a call of update_particles starts
Advance(step) ==
    /\ pc \in Between
    /\ calls < MaxCalls
    /\ dt' = step
    /\ reached_max_iterations' = TRUE
    /\ iteration' = 0
    /\ stdout' = 0
    /\ before' = particles
    /\ before_rectangles' = rectangles
    /\ clean_iterations' = 0
    /\ origin' = [k \in 1..Len(particles) |-> k]
    /\ pc' = "loop"
    /\ UNCHANGED <<bonds, selected_object, edits>>
    /\ UNCHANGED <<particles, rectangles, i, j, r, was_collision,
                   particles_to_delete, calls, handed, panic, examined>>

\* physics.rs:93-97  the head of `for _ in 0..MAX_ITERATIONS`
LoopHead ==
    /\ pc = "loop"
    /\ IF iteration < MAX_ITERATIONS
       THEN /\ iteration' = iteration + 1
            /\ was_collision' = FALSE
            /\ particles_to_delete' = <<>>
            /\ examined' = <<>>
            /\ Goto(StartI(0, Len(particles), Len(rectangles)))
            /\ UNCHANGED handed
       ELSE /\ Goto(At("after", 0, 0, 0))
            /\ handed' = particles
            /\ UNCHANGED <<iteration, was_collision, particles_to_delete, examined>>
    /\ UNCHANGED <<particles, rectangles, dt, reached_max_iterations, stdout,
                   calls, before, before_rectangles, clean_iterations, panic,
                   origin>>
    /\ UNCHANGED <<bonds, selected_object, edits>>

\* physics.rs:99-162  the contact of the pair (i, j)
PairStep ==
    /\ pc = "pair"
    /\ LET a == particles[i + 1]
           b == particles[j + 1]
       IN  IF Contact(a, b)
           THEN IF electrons_assert_fails(a) \/ electrons_assert_fails(b)
                THEN /\ Goto(At("panicked", i, j, 0))
                     /\ panic' = "assert"
                     /\ UNCHANGED <<particles, particles_to_delete, was_collision>>
                ELSE IF Reacts(a, b)
                THEN /\ particles' = [particles EXCEPT ![j + 1] = Merged(a, b)]
                     /\ particles_to_delete' = Append(particles_to_delete, i)
                     /\ Goto(AfterPair(i, j, Len(particles), Len(rectangles)))
                     /\ UNCHANGED <<was_collision, panic>>
                ELSE /\ was_collision' = TRUE
                     /\ particles' = [particles EXCEPT
                                        ![i + 1].velocity = Bounced(a, b),
                                        ![j + 1].velocity = Bounced(b, a)]
                     /\ Goto(AfterPair(i, j, Len(particles), Len(rectangles)))
                     /\ UNCHANGED <<particles_to_delete, panic>>
           ELSE /\ Goto(AfterPair(i, j, Len(particles), Len(rectangles)))
                /\ UNCHANGED <<particles, particles_to_delete, was_collision, panic>>
    /\ examined' = Append(examined, PairTest(i, j))
    /\ UNCHANGED <<rectangles, dt, iteration, reached_max_iterations, stdout,
                   calls, before, before_rectangles, handed, clean_iterations,
                   origin>>
    /\ UNCHANGED <<bonds, selected_object, edits>>

\* a wall check in which the wall recoils from the particle it reflects
WallStepWithRecoil ==
    /\ pc = "wall"
    /\ LET p == particles[i + 1]
           rect == rectangles[r + 1]
       IN  IF WallPanics(rect)
           THEN /\ Goto(At("panicked", i, 0, r))
                /\ panic' = "clamp"
                /\ UNCHANGED <<particles, was_collision, rectangles>>
           ELSE /\ IF WallContact(p, rect)
                   THEN /\ was_collision' = TRUE
                        /\ particles' = [particles EXCEPT
                                           ![i + 1].velocity = Reflected(p, rect)]
                        /\ rectangles' = [rectangles EXCEPT
                                            ![r + 1].position =
                                                VAdd(@, VScale(p.velocity, Half))]
                   ELSE UNCHANGED <<particles, was_collision, rectangles>>
                /\ Goto(AfterWall(i, r, Len(particles), Len(rectangles)))
                /\ UNCHANGED panic
    /\ examined' = Append(examined, WallTest(i, r))
    /\ UNCHANGED <<dt, iteration, reached_max_iterations,
                   particles_to_delete, stdout, calls, before, before_rectangles,
                   handed, clean_iterations, origin>>
    /\ UNCHANGED <<bonds, selected_object, edits>>

\* physics.rs:165-186  particle i against rectangle r
WallStep ==
    /\ pc = "wall"
    /\ LET p == particles[i + 1]
           rect == rectangles[r + 1]
       IN  IF WallPanics(rect)
           THEN /\ Goto(At("panicked", i, 0, r))
                /\ panic' = "clamp"
                /\ UNCHANGED <<particles, was_collision>>
           ELSE /\ IF WallContact(p, rect)
                   THEN /\ was_collision' = TRUE
                        /\ particles' = [particles EXCEPT
                                           ![i + 1].velocity = Reflected(p, rect)]
                   ELSE UNCHANGED <<particles, was_collision>>
                /\ Goto(AfterWall(i, r, Len(particles), Len(rectangles)))
                /\ UNCHANGED panic
    /\ examined' = Append(examined, WallTest(i, r))
    /\ UNCHANGED <<rectangles, dt, iteration, reached_max_iterations,
                   particles_to_delete, stdout, calls, before, before_rectangles,
                   handed, clean_iterations, origin>>
    /\ UNCHANGED <<bonds, selected_object, edits>>

\* a loop that leaves on convergence without clearing the flag
FlagNeverCleared(collided, flag) == flag

\* physics.rs:192-195  reached_max_iterations after the iteration's last line
FlagAfterIteration(collided, flag) == IF ~collided THEN FALSE ELSE flag

\* physics.rs:188-195  the removals, then the convergence test
DeleteStep ==
    /\ pc = "delete"
    /\ LET left == RemoveAll(particles, particles_to_delete)
       IN  IF left.panicked
           THEN /\ Goto(At("panicked", 0, 0, 0))
                /\ panic' = "remove"
                /\ particles' = left.particles
                /\ origin' = RemoveAll(origin, particles_to_delete).particles
                /\ UNCHANGED <<reached_max_iterations, handed, clean_iterations>>
           ELSE /\ particles' = left.particles
                /\ origin' = RemoveAll(origin, particles_to_delete).particles
                /\ panic' = panic
                /\ reached_max_iterations' =
                       FlagAfterIteration(was_collision, reached_max_iterations)
                /\ IF ~was_collision
                   THEN /\ Goto(At("after", 0, 0, 0))
                        /\ handed' = left.particles
                        /\ clean_iterations' = clean_iterations + 1
                   ELSE /\ Goto(At("loop", 0, 0, 0))
                        /\ UNCHANGED <<handed, clean_iterations>>
    /\ UNCHANGED <<rectangles, dt, iteration, was_collision, particles_to_delete,
                   stdout, calls, before, before_rectangles, examined>>
    /\ UNCHANGED <<bonds, selected_object, edits>>

\* physics.rs:197-201  the warning, and on to the integrator
Warn ==
    /\ pc = "after"
    /\ stdout' = IF reached_max_iterations THEN stdout + 1 ELSE stdout
    /\ pc' = "integrate"
    /\ UNCHANGED <<bonds, selected_object, edits>>
    /\ UNCHANGED <<particles, rectangles, dt, iteration, i, j, r, was_collision,
                   reached_max_iterations, particles_to_delete, calls, before,
                   before_rectangles, handed, clean_iterations, panic, origin,
                   examined>>

\* physics.rs:201-204  the integrator, and the return
Integrate ==
    /\ pc = "integrate"
    /\ UNCHANGED <<bonds, selected_object, edits>>
    /\ particles' = [k \in 1..Len(particles) |-> Integrated(particles[k], dt)]
    /\ calls' = calls + 1
    /\ pc' = "idle"
    /\ UNCHANGED <<rectangles, dt, iteration, i, j, r, was_collision,
                   reached_max_iterations, particles_to_delete, stdout, before,
                   before_rectangles, handed, clean_iterations, panic, origin,
                   examined>>

-----------------------------------------------------------------------------
\* App::update after the call (main.rs:126-339): the "Selected Object" window
\* and the click on the scene

\* main.rs:171-188  the DragValue of one field of the selected particle is
\* given a value (the DragValues of radius() and mass() write temporaries)
ParticleFields == {"position.x", "position.y", "velocity.x", "velocity.y"}

DraggedParticle(p, field, value) ==
    IF field = "position.x" THEN [p EXCEPT !.position.x = value]
    ELSE IF field = "position.y" THEN [p EXCEPT !.position.y = value]
    ELSE IF field = "velocity.x" THEN [p EXCEPT !.velocity.x = value]
    ELSE [p EXCEPT !.velocity.y = value]

\* main.rs:221-245  the DragValue of one field of the selected rectangle is
\* given a value
RectangleFields == {"position.x", "position.y", "size.x", "size.y"}

DraggedRectangle(rect, field, value) ==
    IF field = "position.x" THEN [rect EXCEPT !.position.x = value]
    ELSE IF field = "position.y" THEN [rect EXCEPT !.position.y = value]
    ELSE IF field = "size.x" THEN [rect EXCEPT !.size.x = value]
    ELSE [rect EXCEPT !.size.y = value]

\* main.rs:161-254  the "Selected Object" window of a frame: the user drags
\* one value of the selected object, picks a colour for the selected
\* rectangle, or closes the window.  Showing a particle that is no longer in
\* the store panics (self.particles[i], main.rs:171).  The window is shown
\* in every frame that has a selection, whether or not the frame ran a call
\* (main.rs:117: none with time_scale at 0), so a value can be written right
\* after the click that selected the object, and the next call gets the
\* written store.
Inspect ==
    /\ pc \in Between
    /\ calls > 0
    /\ selected_object # NoSelection
    /\ IF selected_object.kind = "Particle" /\ selected_object.index >= Len(particles)
       THEN /\ pc' = "crashed"
            /\ panic' = "index"
            /\ UNCHANGED <<particles, rectangles, selected_object, edits>>
       ELSE /\ pc' = "inspected"
            /\ UNCHANGED panic
            /\ \/ /\ selected_object.kind = "Particle"
                  /\ edits < MaxEdits
                  /\ edits' = edits + 1
                  /\ \E field \in ParticleFields, value \in DragValues :
                        particles' = [particles EXCEPT ![selected_object.index + 1] =
                                         DraggedParticle(@, field, value)]
                  /\ UNCHANGED <<rectangles, selected_object>>
               \/ /\ selected_object.kind = "Rectangle"
                  /\ edits < MaxEdits
                  /\ edits' = edits + 1
                  /\ \/ \E field \in RectangleFields, value \in DragValues :
                           rectangles' = [rectangles EXCEPT ![selected_object.index + 1] =
                                             DraggedRectangle(@, field, value)]
                     \/ \E color \in PickedColours :
                           rectangles' = [rectangles EXCEPT
                                             ![selected_object.index + 1].color = color]
                  /\ UNCHANGED <<particles, selected_object>>
               \/ /\ selected_object' = NoSelection
                  /\ UNCHANGED <<particles, rectangles, edits>>
    /\ UNCHANGED <<dt, iteration, i, j, r, was_collision, reached_max_iterations,
                   particles_to_delete, stdout, calls, before, before_rectangles,
                   handed, clean_iterations, origin, examined, bonds>>

\* main.rs:270-299  a primary click at world_position selects what the
\* search finds there; the first frame has run its call before it (time_scale
\* starts at 1, main.rs:44)
Click(world_position) ==
    /\ pc \in Between
    /\ calls > 0
    /\ selected_object' = Search(world_position, particles, rectangles)
    /\ pc' = "clicked"
    /\ UNCHANGED <<particles, rectangles, dt, iteration, i, j, r, was_collision,
                   reached_max_iterations, particles_to_delete, stdout, calls,
                   before, before_rectangles, handed, clean_iterations, panic,
                   origin, examined, bonds, edits>>

Next ==
    \/ \E step \in DtValues : Advance(step)
    \/ LoopHead
    \/ PairStep
    \/ WallStep
    \/ DeleteStep
    \/ Warn
    \/ Integrate
    \/ Inspect
    \/ \E world_position \in ClickPoints : Click(world_position)

Spec == Init /\ [][Next]_vars

\* The program left alone: App::new, and then frames in which nobody touches
\* the slider, the inspector or the scene.

\* main.rs:38-106  the store of App::new and its bond graph
AppInit == StartFrom(InitialScene, InitialBonds)

\* main.rs:111-124  a frame with time_scale at 1, where App::new has set it:
\* one call, with the time since the frame before, which is 0 in the first
\* frame (last_frame_time is None)
Frame(step) ==
    /\ pc = "idle"
    /\ calls < MaxFrames
    /\ calls = 0 => step = Zero
    /\ dt' = step
    /\ reached_max_iterations' = TRUE
    /\ iteration' = 0
    /\ stdout' = 0
    /\ before' = particles
    /\ before_rectangles' = rectangles
    /\ clean_iterations' = 0
    /\ origin' = [k \in 1..Len(particles) |-> k]
    /\ pc' = "loop"
    /\ UNCHANGED <<bonds, selected_object, edits>>
    /\ UNCHANGED <<particles, rectangles, i, j, r, was_collision,
                   particles_to_delete, calls, handed, panic, examined>>

AppNext ==
    \/ \E step \in FrameTimes : Frame(step)
    \/ LoopHead
    \/ PairStep
    \/ WallStep
    \/ DeleteStep
    \/ Warn
    \/ Integrate

AppSpec == AppInit /\ [][AppNext]_vars

-----------------------------------------------------------------------------
\* What the claims speak of

\* a call has returned and nothing has written the store since; `before` is
\* the store it was given
Returned == pc = "idle" /\ calls > 0

\* a call is running or has panicked
InCall == pc \in {"loop", "pair", "wall", "delete", "after", "integrate", "panicked"}

\* the lines of update_particles a running call can be at
Running == {"loop", "pair", "wall", "delete", "after", "integrate"}

\* the solver loop of the running call has been left
SolverDone == pc = "integrate"

Pairs(ps) == {pair \in (1..Len(ps)) \X (1..Len(ps)) : pair[1] < pair[2]}

\* distance < radius_i + radius_j and (v_i - v_j) . (x_i - x_j) < 0
ClosingContact(a, b) ==
    /\ Overlapping(a, b)
    /\ RLt(dot(VSub(a.velocity, b.velocity), VSub(a.position, b.position)), Zero)

AnyOverlap(ps) == \E pair \in Pairs(ps) : Overlapping(ps[pair[1]], ps[pair[2]])

AnyClosingContact(ps) == \E pair \in Pairs(ps) : ClosingContact(ps[pair[1]], ps[pair[2]])

AnyWallPenetration(ps, rs) ==
    \E k \in 1..Len(ps), w \in 1..Len(rs) : Penetrates(ps[k], rs[w])

AnyWallContact(ps, rs) ==
    \E k \in 1..Len(ps), w \in 1..Len(rs) :
        Penetrates(ps[k], rs[w]) /\ IntoWall(ps[k], rs[w])

SameVelocities(ps, qs) ==
    /\ Len(ps) = Len(qs)
    /\ \A k \in 1..Len(ps) : ps[k].velocity = qs[k].velocity

\* two particles, overlapping and closing, and nothing else
IsolatedClosingPair(ps, rs) ==
    /\ Len(ps) = 2
    /\ rs = <<>>
    /\ ClosingContact(ps[1], ps[2])

\* the sum of mass * velocity over the store
RECURSIVE Momentum(_)
Momentum(ps) ==
    IF ps = <<>> THEN Vec(Zero, Zero)
    ELSE VAdd(VScale(Head(ps).velocity, mass(Head(ps))), Momentum(Tail(ps)))

\* the sum of 1/2 * mass * |velocity|^2 over the store
RECURSIVE KineticEnergy(_)
KineticEnergy(ps) ==
    IF ps = <<>> THEN Zero
    ELSE RAdd(kinetic(Head(ps)), KineticEnergy(Tail(ps)))

\* Two numbers are equal within floating-point tolerance: they differ by at
\* most Tolerance, about a thousand rounding steps of an f32 near 1.  NaN is
\* near nothing.
Tolerance == Rat(1, 8192)
Near(a, b) == RLe(RAbs(RSub(a, b)), Tolerance)
NearVec(a, b) == Near(a.x, b.x) /\ Near(a.y, b.y)

-----------------------------------------------------------------------------
\* C1: the number of particles in the store is the same after any call of
\* update_particles as before it.
C1_LengthStable == Returned => Len(particles) = Len(before)

\* C2: no call panics: every index given to particles.remove is in range and
\* the assert! of Particle::electrons_to_share holds.
C2_NoPanic == pc # "panicked"

\* C3: every call terminates: the solver loop runs at most MAX_ITERATIONS
\* times, then the integrator runs and the call returns.  A call that has not
\* returned is at a line of update_particles from which it goes on.
C3_CallReturns ==
    iteration <= MAX_ITERATIONS /\ (pc \in Between \/ pc \in Running \/ pc = "crashed")

\* C4: a call prints the warning if and only if it ran all MAX_ITERATIONS
\* iterations and none of them was collision-free; it prints it at most once;
\* and a call that printed it still integrated the positions with the
\* velocities the solver left.
C4_WarningIffExhausted ==
    /\ stdout <= 1
    /\ (SolverDone \/ Returned) =>
           (stdout = 1 <=> (iteration = MAX_ITERATIONS /\ clean_iterations = 0))
    /\ (Returned /\ stdout = 1) =>
           /\ Len(particles) = Len(handed)
           /\ \A k \in 1..Len(particles) :
                 /\ particles[k].velocity = handed[k].velocity
                 /\ particles[k].position =
                        VAdd(handed[k].position, VScale(handed[k].velocity, dt))

C4_Witness == Returned /\ stdout = 1 /\ dt # Zero /\ particles # handed

\* C5: when the solver loop is left without the warning, no pair is both
\* penetrating and closing and no particle penetrates a wall it moves into.
C5_NoClosingContactLeft ==
    (SolverDone /\ stdout = 0) =>
        /\ ~AnyClosingContact(particles)
        /\ ~AnyWallContact(particles, rectangles)

\* C6: from a scene in which no two particles overlap and no particle
\* penetrates a wall, a call runs exactly one solver iteration, prints no
\* warning and leaves every velocity as it was.
C6_ApartSceneOneIteration ==
    (Returned /\ ~AnyOverlap(before) /\ ~AnyWallPenetration(before, before_rectangles)) =>
        /\ iteration = 1
        /\ stdout = 0
        /\ SameVelocities(particles, before)

C6_Witness ==
    /\ Returned
    /\ ~AnyOverlap(before)
    /\ ~AnyWallPenetration(before, before_rectangles)
    /\ Len(before) >= 2
    /\ before_rectangles # <<>>
    /\ \E pair \in Pairs(before) :
           RLt(dot(VSub(before[pair[1]].velocity, before[pair[2]].velocity),
                   VSub(before[pair[1]].position, before[pair[2]].position)), Zero)

\* a pair of the store is a contact as the solver tests it
AnyContact(ps) == \E pair \in Pairs(ps) : Contact(ps[pair[1]], ps[pair[2]])

\* C7: when the solver resolves no contact in a call, the scene holding no
\* pair that is overlapping and closing by the solver's test and no wall
\* penetration, the call's whole effect is position := position + velocity * dt
\* for every particle; with dt = 0 the store is unchanged.
C7_OnlyIntegration ==
    (Returned /\ ~AnyContact(before)
              /\ ~AnyWallPenetration(before, before_rectangles)) =>
        /\ Len(particles) = Len(before)
        /\ \A k \in 1..Len(particles) :
              particles[k] =
                  [before[k] EXCEPT !.position =
                      VAdd(before[k].position, VScale(before[k].velocity, dt))]
        /\ (dt = Zero => particles = before)

C7_Witness ==
    /\ Returned
    /\ ~AnyContact(before)
    /\ ~AnyWallPenetration(before, before_rectangles)
    /\ AnyOverlap(before)
    /\ dt # Zero
    /\ particles # before

\* the scene of the head-on scenario: equal masses, radii summing to more than 2
HeadOnScene(ps, rs) ==
    /\ Len(ps) = 2
    /\ rs = <<>>
    /\ mass(ps[1]) = mass(ps[2])
    /\ ps[1].position = IVec(-1, 0)
    /\ ps[2].position = IVec(1, 0)
    /\ Overlapping(ps[1], ps[2])
    /\ ps[1].velocity = IVec(1, 0)
    /\ ps[2].velocity = IVec(-1, 0)

\* C8: two particles of equal mass at (-1, 0) and (1, 0) whose radii sum to
\* more than 2, with velocities (1, 0) and (-1, 0) and no walls: after one
\* call both are in the store with velocities (-1, 0) and (1, 0), each moved
\* by its new velocity times dt.
C8_HeadOnSwap ==
    (Returned /\ HeadOnScene(before, before_rectangles)) =>
        /\ Len(particles) = 2
        /\ particles[1].velocity = IVec(-1, 0)
        /\ particles[2].velocity = IVec(1, 0)
        /\ particles[1].position = VAdd(IVec(-1, 0), VScale(IVec(-1, 0), dt))
        /\ particles[2].position = VAdd(IVec(1, 0), VScale(IVec(1, 0), dt))

\* C9: for an isolated pair of overlapping, closing particles the total
\* momentum of the store is the same, within floating-point tolerance, after
\* the solver as before it.
C9_MomentumKept ==
    (SolverDone /\ IsolatedClosingPair(before, before_rectangles)) =>
        NearVec(Momentum(particles), Momentum(before))

\* C10: for an isolated pair of overlapping, closing particles the total
\* kinetic energy of the store is the same, within floating-point tolerance,
\* after the solver as before it.
C10_EnergyKept ==
    (SolverDone /\ IsolatedClosingPair(before, before_rectangles)) =>
        Near(KineticEnergy(particles), KineticEnergy(before))

\* The product of the sizes of two finite f32 other than zero, with no
\* rounding: <<hi, lo, e>> stands for (hi * 2^24 + lo) * 2^e, hi and lo below
\* 2^24.
ProductParts(top, mid, bottom, e) ==
    <<top + mid \div 4096 + (bottom + (mid % 4096) * 4096) \div 2^24,
      (bottom + (mid % 4096) * 4096) % 2^24, e>>

Product(a, b) ==
    ProductParts((a[2] \div 4096) * (b[2] \div 4096),
                 (a[2] \div 4096) * (b[2] % 4096) + (a[2] % 4096) * (b[2] \div 4096),
                 (a[2] % 4096) * (b[2] % 4096), a[3] + b[3])

\* the number of bits of hi * 2^24 + lo
Bits(p) == IF p[1] > 0 THEN 24 + BitLen(p[1]) ELSE BitLen(p[2])

\* hi * 2^24 + lo times 2^k, which stays below 2^48: <<hi, lo>>
Raised(p, k) ==
    IF k >= 24 THEN <<p[2] * 2^(k - 24), 0>>
    ELSE <<p[1] * 2^k + p[2] \div 2^(24 - k), (p[2] % 2^(24 - k)) * 2^k>>

Widest(p, q) == IF Bits(p) > Bits(q) THEN Bits(p) ELSE Bits(q)

PairLt(x, y) == x[1] < y[1] \/ (x[1] = y[1] /\ x[2] < y[2])

\* p < q for two such products
ProductLt(p, q) ==
    IF p[3] + Bits(p) # q[3] + Bits(q) THEN p[3] + Bits(p) < q[3] + Bits(q)
    ELSE PairLt(Raised(p, Widest(p, q) - Bits(p)), Raised(q, Widest(p, q) - Bits(q)))

\* the sign of a * b as -1, 0 or 1
TermSign(a, b) == Sign(a) * Sign(b)

\* the sign of a * b + c * d, the sum of the real numbers and not its f32
SumSign(a, b, c, d) ==
    IF TermSign(a, b) = 0 THEN TermSign(c, d)
    ELSE IF TermSign(c, d) = 0 \/ TermSign(c, d) = TermSign(a, b) THEN TermSign(a, b)
    ELSE IF ProductLt(Product(a, b), Product(c, d)) THEN TermSign(c, d)
    ELSE IF ProductLt(Product(c, d), Product(a, b)) THEN TermSign(a, b)
    ELSE 0

IsFinite(a) == ~IsNaN(a) /\ ~IsInf(a)

\* The claim's condition: the velocity of the particle has a positive
\* component toward the closest point of the rectangle, that is, velocity .
\* (closest_point - relative_particle_position) is above zero as a real
\* number.  This is not the test of the source, which is IntoWall: the sign of
\* the f32 dot product with the normalized vector.
MovesToward(p, rect) ==
    /\ IsFinite(p.velocity.x)
    /\ IsFinite(p.velocity.y)
    /\ IsFinite(ToWall(p, rect).x)
    /\ IsFinite(ToWall(p, rect).y)
    /\ SumSign(p.velocity.x, ToWall(p, rect).x, p.velocity.y, ToWall(p, rect).y) = 1

\* two velocities are the same numbers (a zero of either sign is zero)
SameVelocity(v, w) == v = w \/ (REq(v.x, w.x) /\ REq(v.y, w.y))

\* the component of v across the unit vector n
cross(v, n) == RSub(RMul(v.x, n.y), RMul(v.y, n.x))

\* the wall check of physics.rs:165-186 is about to test a wall the particle
\* penetrates
AtPenetratedWall ==
    pc = "wall" /\ Penetrates(particles[i + 1], rectangles[r + 1])

\* the wall check changes the velocity if and only if the velocity has a
\* positive component toward the closest point: a velocity at a right angle
\* to the line to the closest point is kept as it is
ChangedIffMovesToward ==
    ~SameVelocity(particles'[i + 1].velocity, particles[i + 1].velocity)
        <=> MovesToward(particles[i + 1], rectangles[r + 1])

\* a changed velocity v2 of the velocity v has the component along the
\* contact normal n negated and the tangential component kept; the values,
\* which f32 rounds, are compared within Tolerance
Mirrored(v, v2, n) ==
    /\ Near(dot(v2, n), RNeg(dot(v, n)))
    /\ Near(cross(v2, n), cross(v, n))
    /\ Near(cross(v, n), Zero) => NearVec(v2, VNeg(v))

ChangedIsMirrored ==
    ~SameVelocity(particles'[i + 1].velocity, particles[i + 1].velocity) =>
        Mirrored(particles[i + 1].velocity, particles'[i + 1].velocity,
                 Normal(particles[i + 1], rectangles[r + 1]))

\* C11: the wall check of a particle that penetrates the wall changes the
\* particle's velocity if and only if the velocity has a positive component
\* toward the wall's closest point; a changed velocity has its component along
\* the contact normal negated and its tangential component kept, so a particle
\* driving straight in leaves with the opposite velocity, and a particle
\* moving along the wall keeps its velocity.
C11_WallReflection ==
    [][(AtPenetratedWall /\ pc' # "panicked") =>
          (ChangedIffMovesToward /\ ChangedIsMirrored)]_vars

\* C12: positions are changed only by the integrator, once per call and after
\* the solver: while a call runs its solver every particle of the store is
\* where it was when the call started, and after the call every particle of
\* the store is at its position before the call plus dt times its velocity
\* after the call.
C12_PositionsOnlyIntegrated ==
    /\ Len(origin) = Len(particles)
    /\ (pc \in Running) =>
           \A k \in 1..Len(particles) :
               particles[k].position = before[origin[k]].position
    /\ Returned =>
           \A k \in 1..Len(particles) :
               particles[k].position =
                   VAdd(before[origin[k]].position, VScale(particles[k].velocity, dt))

\* a call has returned that changed a particle's velocity in the solver and
\* then moved it
C12_Witness ==
    /\ Returned
    /\ dt # Zero
    /\ \E k \in 1..Len(particles) :
           /\ particles[k].velocity # before[origin[k]].velocity
           /\ ~IsNaN(particles[k].velocity.x)
           /\ particles[k].position # before[origin[k]].position

\* C13: a call leaves the wall store unchanged: at every line of the call and
\* after it the store holds the rectangles it held when the call started, each
\* with the same position, size and color.
C13_WallsUnchanged ==
    (InCall \/ Returned) =>
        /\ Len(rectangles) = Len(before_rectangles)
        /\ \A w \in 1..Len(rectangles) :
               /\ rectangles[w].position = before_rectangles[w].position
               /\ rectangles[w].size = before_rectangles[w].size
               /\ rectangles[w].color = before_rectangles[w].color

\* a call has returned in which a wall reflected a particle
C13_Witness ==
    /\ Returned
    /\ AnyWallContact(before, before_rectangles)
    /\ \E k \in 1..Len(particles) : particles[k].velocity # before[origin[k]].velocity
    /\ dt # Zero

\* the pairs (a, b) with a < b in ascending order, then every particle
\* against every wall: the order of a scan that finishes the pairs first
RECURSIVE PairsFrom(_, _, _)
PairsFrom(a, b, n) ==
    IF a + 1 >= n THEN <<>>
    ELSE IF b >= n THEN PairsFrom(a + 1, a + 2, n)
    ELSE <<PairTest(a, b)>> \o PairsFrom(a, b + 1, n)

RECURSIVE WallsFrom(_, _, _, _)
WallsFrom(a, w, n, m) ==
    IF a >= n \/ m = 0 THEN <<>>
    ELSE IF w >= m THEN WallsFrom(a + 1, 0, n, m)
    ELSE <<WallTest(a, w)>> \o WallsFrom(a, w + 1, n, m)

PairsThenWalls(n, m) == PairsFrom(0, 1, n) \o WallsFrom(0, 0, n, m)

\* for each particle a in ascending order: its pairs (a, b), b > a ascending,
\* then a against every wall in store order
RECURSIVE ParticleByParticle(_, _, _)
ParticleByParticle(a, n, m) ==
    IF a >= n THEN <<>>
    ELSE [k \in 1..(n - 1 - a) |-> PairTest(a, a + k)]
         \o [k \in 1..m |-> WallTest(a, k - 1)]
         \o ParticleByParticle(a + 1, n, m)

IsPrefix(s, t) == Len(s) <= Len(t) /\ s = SubSeq(t, 1, Len(s))

\* the scan of the running iteration has visited every contact
ScanDone == pc = "delete"

\* C16 as stated: within one iteration every pair (a, b), a < b, is examined
\* in ascending index order, each once, and then every particle-wall pair,
\* each once; no particle-wall contact is examined before all pair contacts.
C16_PairsThenWalls ==
    /\ (pc \in {"pair", "wall", "delete"}) =>
           IsPrefix(examined, PairsThenWalls(Len(particles), Len(rectangles)))
    /\ ScanDone => examined = PairsThenWalls(Len(particles), Len(rectangles))

\* C16 amended: within one iteration the contacts are examined particle by
\* particle: for each particle a in ascending index order, first its pairs
\* (a, b) with b > a in ascending order, then a against every wall in store
\* order.  Every pair and every particle-wall pair is examined exactly once
\* in an iteration that reaches its end, and the walls of particle a are
\* examined before the pairs of the particles after a.
C16_ParticleByParticle ==
    /\ (pc \in {"pair", "wall", "delete"}) =>
           IsPrefix(examined, ParticleByParticle(0, Len(particles), Len(rectangles)))
    /\ ScanDone => examined = ParticleByParticle(0, Len(particles), Len(rectangles))
    /\ (ScanDone /\ Len(particles) <= 2) =>
           examined = PairsThenWalls(Len(particles), Len(rectangles))

\* a scan over three particles and four walls has finished, in which walls
\* were examined before the pair (1, 2)
C16_Witness ==
    /\ ScanDone
    /\ Len(particles) >= 3
    /\ Len(rectangles) >= 1
    /\ \E x \in 1..Len(examined), y \in 1..Len(examined) :
           x < y /\ examined[x].kind = "wall" /\ examined[y].kind = "pair"

\* the scene of the call: exactly two particles at distinct positions, no walls
TwoApart(ps, rs) ==
    /\ Len(ps) = 2
    /\ rs = <<>>
    /\ ps[1].position # ps[2].position

\* C17: in a scene with exactly two particles at distinct positions and no
\* walls, the solver loop of a call runs at most two iterations and the
\* warning is never printed.
C17_TwoParticlesSettle ==
    TwoApart(before, before_rectangles) => (iteration <= 2 /\ stdout = 0)

\* the sum of Particle::mass over the store
RECURSIVE TotalMass(_)
TotalMass(ps) == IF ps = <<>> THEN Zero ELSE RAdd(mass(Head(ps)), TotalMass(Tail(ps)))

\* C18: the total mass of the store, counting base and attached elements, is
\* the same after any call as before it.
C18_MassKept == Returned => TotalMass(particles) = TotalMass(before)

\* the source indices in idxs, as a set
Listed(idxs) == {idxs[k] : k \in 1..Len(idxs)}

\* the particles of ps whose source index is not in gone, in store order
RECURSIVE Without(_, _, _)
Without(ps, gone, k) ==
    IF k >= Len(ps) THEN <<>>
    ELSE (IF k \in gone THEN <<>> ELSE <<ps[k + 1]>>) \o Without(ps, gone, k + 1)

\* C19: the removals at the end of an iteration take out exactly the absorbed
\* particles, the lower index of each merging pair, each once: the store after
\* them is the store before them without the particles listed in
\* particles_to_delete, whatever the number and indices of the merges.
C19_RemovesTheAbsorbed ==
    [][(pc = "delete" /\ pc' # "panicked") =>
          particles' = Without(particles, Listed(particles_to_delete), 0)]_vars


\* main.rs:33, 66  a key of the bond graph is a pair of positions in the
\* store; this one names a position the store does not have
Dangling(ps, bond) == bond[1] >= Len(ps) \/ bond[2] >= Len(ps)

\* C15: after any sequence of update_particles calls starting from the initial
\* scene (three particles, bonds (0,1) and (0,2)), both indices of every bond
\* in the bond graph are positions in the particle store.
C15_BondIndicesValid ==
    pc = "idle" => \A bond \in bonds : ~Dangling(particles, bond)

====
